---- MODULE Spec2Model ----
(***************************************************************************)
(* A model of the two equation-of-state fitting programs, eos.py (one      *)
(* dataset) and eos_addition.py (a list of datasets).                      *)
(*                                                                         *)
(* Numbers are exact rationals <<numerator, denominator>> in lowest terms  *)
(* with a positive denominator; NaN is <<0, 0>>.  Volumes handed to the    *)
(* model functions are perfect cubes, so that the powers k/3 the functions *)
(* take are rational.  np.exp is kept symbolic: a pressure is a record     *)
(* [c, e] standing for the real number c * exp(e).                         *)
(***************************************************************************)
EXTENDS Integers, Sequences, FiniteSets

\* Largest cube root of a volume handed to the model functions.
MaxRoot == 3

------------------------------------------------------------------------------
\* Rational arithmetic (the float arithmetic of the model functions).

RECURSIVE Gcd(_, _)
Gcd(a, b) == IF b = 0 THEN a ELSE Gcd(b, a % b)

Abs(n) == IF n < 0 THEN -n ELSE n

Rat(n, d) ==
    LET g == Gcd(Abs(n), Abs(d))
        s == IF d < 0 THEN -1 ELSE 1
    IN  <<(s * n) \div g, (s * d) \div g>>

Num(n) == <<n, 1>>

Zero == Num(0)

One == Num(1)

NaN == <<0, 0>>

IsNaN(x) == x[2] = 0

RAdd(x, y) == Rat(x[1] * y[2] + y[1] * x[2], x[2] * y[2])

RSub(x, y) == Rat(x[1] * y[2] - y[1] * x[2], x[2] * y[2])

RMul(x, y) == Rat(x[1] * y[1], x[2] * y[2])

RDiv(x, y) == Rat(x[1] * y[2], x[2] * y[1])

RECURSIVE RPow(_, _)
RPow(x, k) == IF k = 0 THEN One ELSE RMul(x, RPow(x, k - 1))

\* The integer cube root of a perfect cube.
ICbrt(n) == CHOOSE k \in 0..n : k * k * k = n

\* x ** (k/3) for a rational x whose numerator and denominator are cubes.
PowThirds(x, k) == RPow(Rat(ICbrt(x[1]), ICbrt(x[2])), k)

\* The real number c * exp(e); exp never vanishes, so it is 0 exactly when c is.
Scaled(c, e) == IF c = Zero THEN [c |-> Zero, e |-> Zero] ELSE [c |-> c, e |-> e]

IsZero(p) == p.c = Zero

------------------------------------------------------------------------------
\* The model functions.

\* eos.py
birch_murnaghan_sign(V, V0, K0, K0_prime) ==
    LET r == RDiv(V0, V)
    IN  Scaled(RMul(RMul(RMul(Rat(3, 2), K0),
                         RAdd(PowThirds(r, 7), PowThirds(r, 5))),
                    RAdd(One, RMul(RMul(Rat(3, 4), RSub(K0_prime, Num(4))),
                                   RSub(PowThirds(r, 2), One)))),
               Zero)

birch_murnaghan(V, V0, K0, K0_prime) ==
    LET r == RDiv(V0, V)
    IN  Scaled(RMul(RMul(RMul(Rat(3, 2), K0),
                         RSub(PowThirds(r, 7), PowThirds(r, 5))),
                    RAdd(One, RMul(RMul(Rat(3, 4), RSub(K0_prime, Num(4))),
                                   RSub(PowThirds(r, 2), One)))),
               Zero)

vinet(V, V0, K0, K0_prime) ==
    LET x   == PowThirds(RDiv(V, V0), 1)
        eta == RMul(Rat(3, 2), RSub(K0_prime, One))
    IN  Scaled(RMul(RMul(Num(3), K0), RSub(One, x)), RMul(eta, RSub(One, x)))

\* eos_addition.py
add_birch_murnaghan_free(V, V0, K0, K0_prime) ==
    LET r  == RDiv(V0, V)
    IN  Scaled(RMul(RMul(RMul(Rat(3, 2), K0),
                         RSub(PowThirds(r, 7), PowThirds(r, 5))),
                    RAdd(One, RMul(RMul(Rat(3, 4), RSub(K0_prime, Num(4))),
                                   RSub(PowThirds(r, 2), One)))),
               Zero)

add_birch_murnaghan(V, V0, K0, K0_prime) ==
    LET K0_ == Num(160)
        r   == RDiv(V0, V)
    IN  Scaled(RMul(RMul(RMul(Rat(3, 2), K0_),
                         RSub(PowThirds(r, 7), PowThirds(r, 5))),
                    RAdd(One, RMul(RMul(Rat(3, 4), RSub(K0_prime, Num(4))),
                                   RSub(PowThirds(r, 2), One)))),
               Zero)

add_vinet(V, V0, K0, K0_prime) ==
    LET x   == PowThirds(RDiv(V, V0), 1)
        eta == RMul(Rat(3, 2), RSub(K0_prime, One))
    IN  Scaled(RMul(RMul(Num(3), K0), RSub(One, x)), RMul(eta, RSub(One, x)))

------------------------------------------------------------------------------
\* The command line and the spreadsheet the programs are run on.

\* Most column pairs on a command line.
MaxPairs == 2

\* Rows of the spreadsheet.
NRows == 3

\* Columns of the spreadsheet; "Q" is a name a command line may ask for
\* that the spreadsheet does not hold.
SheetColumns == {"P", "V", "W"}

PressureNames == {"P", "Q"}

VolumeNames == {"V", "W"}

Clean == [k \in 1..NRows |-> Num(k * k)]

LeadingNaN == [k \in 1..NRows |-> IF k = 1 THEN NaN ELSE Num(k * k)]

InteriorNaN == [k \in 1..NRows |-> IF 1 < k /\ k < NRows THEN NaN ELSE Num(k * k)]

TrailingNaN == [k \in 1..NRows |-> IF k = NRows THEN NaN ELSE Num(k * k)]

ColumnValues == {Clean, LeadingNaN, InteriorNaN, TrailingNaN}

\* A spreadsheet with NRows rows, or one that holds the header row only.
Sheets == [SheetColumns -> ColumnValues] \cup {[c \in SheetColumns |-> << >>]}

SeqsUpTo(S, n) == UNION {[1..k -> S] : k \in 1..n}

DefaultColors == <<"mediumblue", "red", "green", "purple">>

ColorLists == {DefaultColors, <<"red">>, <<"red", "green">>}

EosArgs == [pressure_column : PressureNames, volume_column : VolumeNames]

AddArgs == [pressures : SeqsUpTo(PressureNames, MaxPairs),
            volumes   : SeqsUpTo(VolumeNames, MaxPairs),
            colors    : ColorLists]

------------------------------------------------------------------------------
VARIABLES
    prog,             \* "eos" or "eos_addition": the program that runs
    args,             \* the parsed command line
    sheet,            \* the spreadsheet at args.filename
    data,             \* the table read_data returned (then interpolated)
    i,                \* the loop index of eos_addition.py
    Pcol,             \* P, the pressure array of the current dataset
    Vcol,             \* V, the volume array of the current dataset
    initial_guess,    \* [V[0], k, k']
    popt_bm,          \* the dataset whose Birch-Murnaghan fit it holds, or -1
    popt_vinet,       \* the dataset whose Vinet fit it holds, or -1
    curve_fit_calls,  \* every call of curve_fit so far, in order
    stdout,           \* every line printed so far, in order
    canvas,           \* every plt.plot so far, in order
    output_file,      \* the image at args.output_file
    savefig_calls,    \* the number of plt.savefig calls so far
    pc,               \* where the program is
    call,             \* the arguments of a model function
    ret               \* the model function applied and what it returned

mainvars == <<prog, args, sheet, data, i, Pcol, Vcol, initial_guess, popt_bm,
              popt_vinet, curve_fit_calls, stdout, canvas, output_file,
              savefig_calls, pc>>

vars == <<prog, args, sheet, data, i, Pcol, Vcol, initial_guess, popt_bm,
          popt_vinet, curve_fit_calls, stdout, canvas, output_file,
          savefig_calls, pc, call, ret>>

NoCall == [V |-> One, V0 |-> One, K0 |-> One, K0_prime |-> One]

NoRet == [fn |-> "none", P |-> Scaled(Zero, Zero)]

NoTable == << >>

Line(kind, what, n) == [kind |-> kind, what |-> what, i |-> n]

------------------------------------------------------------------------------
\* Library calls.

\* pd.read_excel(filename, usecols=columns) raises when a name of columns
\* is no column of the sheet.
usecols_missing_none(columns) == {}

usecols_missing(columns) == columns \ DOMAIN sheet

read_excel(columns) == [c \in columns \cap DOMAIN sheet |-> sheet[c]]

\* DataFrame.interpolate(): linear, forward.  A gap between two values is
\* filled on the line through them, a gap at the end with the last value, a
\* gap at the start is left.
interpolate_column(col) ==
    [k \in 1..Len(col) |->
        IF ~IsNaN(col[k]) THEN col[k]
        ELSE LET before == {j \in 1..(k - 1) : ~IsNaN(col[j])}
                 after  == {j \in (k + 1)..Len(col) : ~IsNaN(col[j])}
             IN  IF before = {} THEN NaN
                 ELSE LET l == CHOOSE j \in before : \A m \in before : m <= j
                      IN  IF after = {} THEN col[l]
                          ELSE LET r == CHOOSE j \in after : \A m \in after : j <= m
                               IN  RAdd(col[l],
                                        RMul(RSub(col[r], col[l]),
                                             Rat(k - l, r - l)))]

interpolate(df) == [c \in DOMAIN df |-> interpolate_column(df[c])]

\* A table without rows has columns of dtype object only, on which
\* interpolate() raises TypeError.
interpolate_raises(df) == \A c \in DOMAIN df : Len(df[c]) = 0

isnan_any(col) == \E k \in 1..Len(col) : IsNaN(col[k])

\* curve_fit(f, V, P, p0): whether it returns (TRUE) or raises (FALSE).  It
\* checks its arrays for NaN first and raises on one; otherwise the optimizer
\* may converge or not.
curve_fit(xdata, ydata) ==
    IF isnan_any(xdata) \/ isnan_any(ydata) THEN {FALSE} ELSE BOOLEAN

exit(line) ==
    /\ stdout' = Append(stdout, line)
    /\ pc' = "exit"

------------------------------------------------------------------------------
\* read_data of both programs: whether pd.read_excel raises (the file cannot
\* be read, or a requested column is not in it), which prints "Error reading
\* file" and calls exit(), and the table it returns otherwise.

read_data_fails(columns, readable) == ~readable \/ usecols_missing(columns) # {}

read_data(columns) == read_excel(columns)

------------------------------------------------------------------------------
\* eos.py, main.

eos_read_data ==
    /\ prog = "eos"
    /\ pc = "start"
    /\ \E readable \in BOOLEAN :
           IF read_data_fails({args.pressure_column, args.volume_column}, readable)
           THEN /\ exit(Line("error", "read", -1))
                /\ UNCHANGED data
           ELSE /\ data' = read_data({args.pressure_column, args.volume_column})
                /\ pc' = "columns"
                /\ UNCHANGED stdout
    /\ UNCHANGED <<prog, args, sheet, i, Pcol, Vcol, initial_guess, popt_bm,
                   popt_vinet, curve_fit_calls, canvas, output_file,
                   savefig_calls, call, ret>>

eos_initial_guess(V_) == <<V_[1], 1, 1>>

\* The column check, the two arrays and the initial guess; V[0] of an empty
\* array raises IndexError, which nothing catches.
eos_columns ==
    /\ prog = "eos"
    /\ pc = "columns"
    /\ IF ~({args.pressure_column, args.volume_column} \subseteq DOMAIN data)
       THEN /\ exit(Line("error", "columns", 0))
            /\ UNCHANGED <<Pcol, Vcol, initial_guess>>
       ELSE /\ Vcol' = data[args.volume_column]
            /\ Pcol' = data[args.pressure_column]
            /\ UNCHANGED stdout
            /\ IF Len(data[args.volume_column]) = 0
               THEN /\ pc' = "crash"
                    /\ UNCHANGED initial_guess
               ELSE /\ initial_guess' = eos_initial_guess(data[args.volume_column])
                    /\ pc' = "fit_bm"
    /\ UNCHANGED <<prog, args, sheet, data, i, popt_bm, popt_vinet,
                   curve_fit_calls, canvas, output_file, savefig_calls,
                   call, ret>>

eos_fit_bm ==
    /\ prog = "eos"
    /\ pc = "fit_bm"
    /\ curve_fit_calls' = Append(curve_fit_calls,
           [f |-> "birch_murnaghan", i |-> 0, p0 |-> initial_guess, maxfev |-> 0])
    /\ \E ok \in curve_fit(Vcol, Pcol) :
           IF ok
           THEN /\ popt_bm' = 0
                /\ stdout' = Append(stdout, Line("params", "birch_murnaghan", 0))
                /\ pc' = "fit_vinet"
           ELSE /\ exit(Line("error", "birch_murnaghan", 0))
                /\ UNCHANGED popt_bm
    /\ UNCHANGED <<prog, args, sheet, data, i, Pcol, Vcol, initial_guess,
                   popt_vinet, canvas, output_file, savefig_calls, call, ret>>

eos_fit_vinet ==
    /\ prog = "eos"
    /\ pc = "fit_vinet"
    /\ curve_fit_calls' = Append(curve_fit_calls,
           [f |-> "vinet", i |-> 0, p0 |-> initial_guess, maxfev |-> 0])
    /\ \E ok \in curve_fit(Vcol, Pcol) :
           IF ok
           THEN /\ popt_vinet' = 0
                /\ stdout' = Append(stdout, Line("params", "vinet", 0))
                /\ pc' = "plot"
           ELSE /\ exit(Line("error", "vinet", 0))
                /\ UNCHANGED popt_vinet
    /\ UNCHANGED <<prog, args, sheet, data, i, Pcol, Vcol, initial_guess,
                   popt_bm, canvas, output_file, savefig_calls, call, ret>>

\* The two plt.plot calls, plt.savefig and plt.show.
eos_plot ==
    /\ prog = "eos"
    /\ pc = "plot"
    /\ canvas' = canvas \o <<[kind |-> "fit", i |-> popt_bm, color |-> "gray"],
                             [kind |-> "data", i |-> 0, color |-> "mediumblue"]>>
    /\ output_file' = [written |-> TRUE, image |-> canvas']
    /\ savefig_calls' = savefig_calls + 1
    /\ pc' = "done"
    /\ UNCHANGED <<prog, args, sheet, data, i, Pcol, Vcol, initial_guess,
                   popt_bm, popt_vinet, curve_fit_calls, stdout, call, ret>>

------------------------------------------------------------------------------
\* eos_addition.py, main.

lengths_differ_gt(pressures, volumes) == Len(pressures) > Len(volumes)

lengths_differ(pressures, volumes) == Len(pressures) # Len(volumes)

add_check_lengths ==
    /\ prog = "eos_addition"
    /\ pc = "start"
    /\ IF lengths_differ(args.pressures, args.volumes)
       THEN exit(Line("error", "lengths", -1))
       ELSE /\ pc' = "read"
            /\ UNCHANGED stdout
    /\ UNCHANGED <<prog, args, sheet, data, i, Pcol, Vcol, initial_guess,
                   popt_bm, popt_vinet, curve_fit_calls, canvas, output_file,
                   savefig_calls, call, ret>>

Range(s) == {s[k] : k \in 1..Len(s)}

\* read_data, then data.interpolate(), then the loop starts; an exception of
\* interpolate() is caught by nothing.
add_read_data ==
    /\ prog = "eos_addition"
    /\ pc = "read"
    /\ \E readable \in BOOLEAN :
           IF read_data_fails(Range(args.pressures \o args.volumes), readable)
           THEN /\ exit(Line("error", "read", -1))
                /\ UNCHANGED <<data, i>>
           ELSE /\ data' = interpolate(read_data(Range(args.pressures \o args.volumes)))
                /\ i' = 0
                /\ pc' = IF interpolate_raises(read_data(Range(args.pressures \o args.volumes)))
                         THEN "crash" ELSE "loop"
                /\ UNCHANGED stdout
    /\ UNCHANGED <<prog, args, sheet, Pcol, Vcol, initial_guess, popt_bm,
                   popt_vinet, curve_fit_calls, canvas, output_file,
                   savefig_calls, call, ret>>

\* The end of one pass of the for loop.
next_pair ==
    /\ i' = i + 1
    /\ pc' = IF i + 1 < Len(args.pressures) THEN "loop" ELSE "done"

missing_values_pressure(P_, V_) == isnan_any(P_)

missing_values(P_, V_) == isnan_any(P_) \/ isnan_any(V_)

\* The warning and `continue`.
add_skip_saving ==
    /\ stdout' = Append(stdout, Line("warning", "missing", i))
    /\ output_file' = [written |-> TRUE, image |-> canvas]
    /\ savefig_calls' = savefig_calls + 1
    /\ next_pair
    /\ UNCHANGED initial_guess

add_skip ==
    /\ stdout' = Append(stdout, Line("warning", "missing", i))
    /\ next_pair
    /\ UNCHANGED <<initial_guess, output_file, savefig_calls>>

add_initial_guess_last(V_) == <<V_[Len(V_)], 160, 5>>

add_initial_guess(V_) == <<V_[1], 160, 5>>

\* One pass of the loop up to the initial guess: the column check, the two
\* arrays, the missing-value check.
add_loop ==
    /\ prog = "eos_addition"
    /\ pc = "loop"
    /\ IF ~({args.pressures[i + 1], args.volumes[i + 1]} \subseteq DOMAIN data)
       THEN /\ exit(Line("error", "columns", i))
            /\ UNCHANGED <<i, Pcol, Vcol, initial_guess, output_file, savefig_calls>>
       ELSE /\ Pcol' = data[args.pressures[i + 1]]
            /\ Vcol' = data[args.volumes[i + 1]]
            /\ IF missing_values(data[args.pressures[i + 1]], data[args.volumes[i + 1]])
               THEN add_skip
               ELSE /\ UNCHANGED <<i, stdout, output_file, savefig_calls>>
                    /\ initial_guess' = add_initial_guess(data[args.volumes[i + 1]])
                    /\ pc' = "fit_bm"
    /\ UNCHANGED <<prog, args, sheet, data, popt_bm, popt_vinet,
                   curve_fit_calls, canvas, call, ret>>

add_fit_bm ==
    /\ prog = "eos_addition"
    /\ pc = "fit_bm"
    /\ curve_fit_calls' = Append(curve_fit_calls,
           [f |-> "birch_murnaghan", i |-> i, p0 |-> initial_guess, maxfev |-> 5000])
    /\ \E ok \in curve_fit(Vcol, Pcol) :
           IF ok
           THEN /\ popt_bm' = i
                /\ stdout' = Append(stdout, Line("params", "birch_murnaghan", i))
                /\ pc' = "fit_vinet"
           ELSE /\ exit(Line("error", "birch_murnaghan", i))
                /\ UNCHANGED popt_bm
    /\ UNCHANGED <<prog, args, sheet, data, i, Pcol, Vcol, initial_guess,
                   popt_vinet, canvas, output_file, savefig_calls, call, ret>>

add_fit_vinet ==
    /\ prog = "eos_addition"
    /\ pc = "fit_vinet"
    /\ curve_fit_calls' = Append(curve_fit_calls,
           [f |-> "vinet", i |-> i, p0 |-> initial_guess, maxfev |-> 0])
    /\ \E ok \in curve_fit(Vcol, Pcol) :
           IF ok
           THEN /\ popt_vinet' = i
                /\ stdout' = Append(stdout, Line("params", "vinet", i))
                /\ pc' = "plot"
           ELSE /\ exit(Line("error", "vinet", i))
                /\ UNCHANGED popt_vinet
    /\ UNCHANGED <<prog, args, sheet, data, i, Pcol, Vcol, initial_guess,
                   popt_bm, canvas, output_file, savefig_calls, call, ret>>

color_index_plotted(n) == (Len(canvas) \div 2) % Len(args.colors)

color_index(n) == n % Len(args.colors)

\* The two plt.plot calls, the labels and plt.savefig, all inside the loop.
add_plot ==
    /\ prog = "eos_addition"
    /\ pc = "plot"
    /\ canvas' = canvas \o
           <<[kind |-> "fit", i |-> popt_bm, color |-> args.colors[color_index(i) + 1]],
             [kind |-> "data", i |-> i, color |-> args.colors[color_index(i) + 1]]>>
    /\ output_file' = [written |-> TRUE, image |-> canvas']
    /\ savefig_calls' = savefig_calls + 1
    /\ next_pair
    /\ UNCHANGED <<prog, args, sheet, data, Pcol, Vcol, initial_guess,
                   popt_bm, popt_vinet, curve_fit_calls, stdout, call, ret>>

------------------------------------------------------------------------------
\* The programs, run on every command line and spreadsheet of the bounds.

Init ==
    /\ \/ prog = "eos" /\ args \in EosArgs
       \/ prog = "eos_addition" /\ args \in AddArgs
    /\ sheet \in Sheets
    /\ data = NoTable
    /\ i = 0
    /\ Pcol = << >>
    /\ Vcol = << >>
    /\ initial_guess = << >>
    /\ popt_bm = -1
    /\ popt_vinet = -1
    /\ curve_fit_calls = << >>
    /\ stdout = << >>
    /\ canvas = << >>
    /\ output_file = [written |-> FALSE, image |-> << >>]
    /\ savefig_calls = 0
    /\ pc = "start"
    /\ call = NoCall
    /\ ret = NoRet

Next ==
    \/ eos_read_data
    \/ eos_columns
    \/ eos_fit_bm
    \/ eos_fit_vinet
    \/ eos_plot
    \/ add_check_lengths
    \/ add_read_data
    \/ add_loop
    \/ add_fit_bm
    \/ add_fit_vinet
    \/ add_plot

Spec == Init /\ [][Next]_vars

------------------------------------------------------------------------------
\* The model functions, applied to every argument list of the bounds.

Cubes == {Num(k * k * k) : k \in 1..MaxRoot}

K0Values == {Num(-2), Num(0), Num(1), Num(160)}

K0PrimeValues == {Num(-1), Num(1), Num(4), Num(5)}

Calls == [V : Cubes, V0 : Cubes, K0 : K0Values, K0_prime : K0PrimeValues]

InitEOS ==
    /\ prog = "none"
    /\ args = << >>
    /\ sheet = << >>
    /\ data = NoTable
    /\ i = 0
    /\ Pcol = << >>
    /\ Vcol = << >>
    /\ initial_guess = << >>
    /\ popt_bm = -1
    /\ popt_vinet = -1
    /\ curve_fit_calls = << >>
    /\ stdout = << >>
    /\ canvas = << >>
    /\ output_file = [written |-> FALSE, image |-> << >>]
    /\ savefig_calls = 0
    /\ pc = "idle"
    /\ call \in Calls
    /\ ret = NoRet

apply_birch_murnaghan ==
    /\ ret = NoRet
    /\ ret' = [fn |-> "eos.birch_murnaghan",
               P  |-> birch_murnaghan(call.V, call.V0, call.K0, call.K0_prime)]
    /\ UNCHANGED <<mainvars, call>>

apply_vinet ==
    /\ ret = NoRet
    /\ ret' = [fn |-> "eos.vinet",
               P  |-> vinet(call.V, call.V0, call.K0, call.K0_prime)]
    /\ UNCHANGED <<mainvars, call>>

apply_add_birch_murnaghan ==
    /\ ret = NoRet
    /\ ret' = [fn |-> "eos_addition.birch_murnaghan",
               P  |-> add_birch_murnaghan(call.V, call.V0, call.K0, call.K0_prime)]
    /\ UNCHANGED <<mainvars, call>>

apply_add_vinet ==
    /\ ret = NoRet
    /\ ret' = [fn |-> "eos_addition.vinet",
               P  |-> add_vinet(call.V, call.V0, call.K0, call.K0_prime)]
    /\ UNCHANGED <<mainvars, call>>

NextEOS ==
    \/ apply_birch_murnaghan
    \/ apply_vinet
    \/ apply_add_birch_murnaghan
    \/ apply_add_vinet

SpecEOS == InitEOS /\ [][NextEOS]_vars

------------------------------------------------------------------------------
\* C6: both model functions, in both programs, return pressure 0 at the
\* reference volume V = V0, whatever K0 and K0_prime are.
C6_ZeroAtReferenceVolume ==
    (ret.fn # "none" /\ call.V = call.V0) => IsZero(ret.P)

C6_Witness ==
    /\ ret.fn = "eos.birch_murnaghan"
    /\ call.V = call.V0
    /\ call.V0 = Num(8)
    /\ call.K0 = Num(160)
    /\ call.K0_prime = Num(5)
    /\ IsZero(ret.P)

\* C7: birch_murnaghan of eos_addition.py ignores its K0 argument: its
\* result is the same for every K0 and is that of eos.py's birch_murnaghan
\* at K0 = 160; eos.py's birch_murnaghan and both vinet functions depend on
\* K0: wherever their result is not 0, another K0 gives another result.
C7_K0Ignored ==
    /\ ret.fn = "eos_addition.birch_murnaghan" =>
           /\ \A k \in K0Values :
                  add_birch_murnaghan(call.V, call.V0, k, call.K0_prime) = ret.P
           /\ birch_murnaghan(call.V, call.V0, Num(160), call.K0_prime) = ret.P
    /\ ret.fn = "eos.birch_murnaghan" =>
           \A k \in K0Values \ {call.K0} :
               LET other == birch_murnaghan(call.V, call.V0, k, call.K0_prime)
               IN  (~IsZero(ret.P) \/ ~IsZero(other)) => other # ret.P
    /\ ret.fn = "eos.vinet" =>
           \A k \in K0Values \ {call.K0} :
               LET other == vinet(call.V, call.V0, k, call.K0_prime)
               IN  (~IsZero(ret.P) \/ ~IsZero(other)) => other # ret.P
    /\ ret.fn = "eos_addition.vinet" =>
           \A k \in K0Values \ {call.K0} :
               LET other == add_vinet(call.V, call.V0, k, call.K0_prime)
               IN  (~IsZero(ret.P) \/ ~IsZero(other)) => other # ret.P

C7_Witness ==
    /\ ret.fn = "eos_addition.birch_murnaghan"
    /\ call.K0 = Num(1)
    /\ call.V = Num(8)
    /\ call.V0 = Num(27)
    /\ ~IsZero(ret.P)
    /\ ret.P # birch_murnaghan(call.V, call.V0, call.K0, call.K0_prime)

------------------------------------------------------------------------------
\* What the claims about the programs speak of, read off the state.

Pressures == IF prog = "eos" THEN <<args.pressure_column>> ELSE args.pressures

Volumes == IF prog = "eos" THEN <<args.volume_column>> ELSE args.volumes

Running == prog \in {"eos", "eos_addition"}

Printed(kind, what, n) == \E m \in DOMAIN stdout : stdout[m] = Line(kind, what, n)

LastLine == stdout[Len(stdout)]

FitFailed ==
    /\ pc = "exit"
    /\ stdout # << >>
    /\ LastLine.kind = "error"
    /\ LastLine.what \in {"birch_murnaghan", "vinet"}

CallsOf(f, n) == {m \in DOMAIN curve_fit_calls :
                     curve_fit_calls[m].f = f /\ curve_fit_calls[m].i = n}

Plotted(n) == \E m \in DOMAIN canvas : canvas[m].kind = "data" /\ canvas[m].i = n

\* Pair n (from 0) of the table the loop works on holds a missing value.
PairHasNaN(n) ==
    \/ \E k \in DOMAIN data[Pressures[n + 1]] : IsNaN(data[Pressures[n + 1]][k])
    \/ \E k \in DOMAIN data[Volumes[n + 1]] : IsNaN(data[Volumes[n + 1]][k])

\* eos_addition.py is at the top of the loop body with a pair that holds a
\* missing value after the interpolation.
AtPairWithNaN ==
    /\ prog = "eos_addition"
    /\ pc = "loop"
    /\ {Pressures[i + 1], Volumes[i + 1]} \subseteq DOMAIN data
    /\ PairHasNaN(i)

NothingFitted ==
    /\ curve_fit_calls = << >>
    /\ canvas = << >>
    /\ ~output_file.written
    /\ savefig_calls = 0

------------------------------------------------------------------------------
\* C1: eos_addition.py, given --pressures and --volumes lists of different
\* lengths, reports the error and terminates: no table is read, curve_fit is
\* not called for either model, nothing is plotted and no image is written.
C1_MismatchedListsNoFit ==
    (prog = "eos_addition" /\ Len(args.pressures) # Len(args.volumes)) =>
        /\ pc \in {"start", "exit"}
        /\ pc = "exit" => stdout = <<Line("error", "lengths", -1)>>
        /\ data = NoTable
        /\ NothingFitted

C1_Witness ==
    /\ prog = "eos_addition"
    /\ Len(args.pressures) < Len(args.volumes)
    /\ pc = "exit"
    /\ stdout = <<Line("error", "lengths", -1)>>

\* C2: after a fit has failed, on any model and any dataset, no image is at
\* the output path and the failed fit was called once (no retry).
C2_NoPartialResults ==
    FitFailed =>
        /\ ~output_file.written
        /\ Cardinality(CallsOf(LastLine.what, LastLine.i)) = 1

\* C3, as claimed: the program that does not interpolate (eos.py) skips a
\* dataset with a missing value: no fit is attempted and it does not
\* terminate on it.
C3_SkippedWithoutInterpolation ==
    (/\ prog = "eos"
     /\ {args.pressure_column, args.volume_column} \subseteq DOMAIN data
     /\ PairHasNaN(0)) =>
        /\ curve_fit_calls = << >>
        /\ pc # "exit"

\* C3, amended: the program that skips is eos_addition.py, the one that
\* interpolates: a pair that still holds a missing value after the
\* interpolation gets the warning and no fit, the process does not
\* terminate on it, and the loop goes on to the next pair; no fit is ever
\* called on such a pair.  eos.py has no missing-value check: it prints no
\* warning and calls the Birch-Murnaghan fit on the data as read.
C3_SkippedInAddition ==
    /\ [][(prog = "eos" /\ pc = "fit_bm") =>
              /\ Len(curve_fit_calls') = Len(curve_fit_calls) + 1
              /\ curve_fit_calls'[Len(curve_fit_calls')].f = "birch_murnaghan"]_vars
    /\ [](prog = "eos" => \A m \in DOMAIN stdout : stdout[m].kind # "warning")
    /\ [][AtPairWithNaN =>
              /\ curve_fit_calls' = curve_fit_calls
              /\ stdout' = Append(stdout, Line("warning", "missing", i))
              /\ pc' \notin {"exit", "crash"}
              /\ i' = i + 1
              /\ i + 1 < Len(args.pressures) => pc' = "loop"]_vars
    /\ [](prog = "eos_addition" =>
              \A m \in DOMAIN curve_fit_calls : ~PairHasNaN(curve_fit_calls[m].i))

C3_Witness ==
    /\ prog = "eos_addition"
    /\ stdout = <<Line("warning", "missing", 0)>>
    /\ i = 1
    /\ pc = "fit_bm"

\* C4: in both programs, when a requested column is not in the spreadsheet,
\* loading fails and the process terminates before any fit, for any dataset,
\* and no image is written.
C4_AbsentColumnNoFit ==
    (Running /\ \E c \in Range(Pressures \o Volumes) : c \notin DOMAIN sheet) =>
        /\ pc \in {"start", "read", "exit"}
        /\ pc = "exit" => LastLine.kind = "error"
        /\ NothingFitted

C4_Witness ==
    /\ prog = "eos_addition"
    /\ args.pressures = <<"P", "Q">>
    /\ args.volumes = <<"V", "W">>
    /\ sheet["P"] = Clean
    /\ sheet["V"] = Clean
    /\ pc = "exit"
    /\ stdout = <<Line("error", "read", -1)>>

\* C5: a run that terminates normally has written the output image exactly
\* once.
C5_ImageWrittenOnce ==
    (Running /\ pc = "done") => savefig_calls = 1

\* C8: curve_fit is called at most once per model and dataset, with the
\* initial guess [first volume of the dataset, k, k'], (k, k') being (1, 1)
\* in eos.py and (160, 5) in eos_addition.py; a Vinet call comes right after
\* the Birch-Murnaghan call of the same dataset, which succeeded; a dataset
\* is plotted only after one call of each model succeeded for it.
C8_FitOrderAndGuess ==
    Running =>
        LET k0 == IF prog = "eos" THEN 1 ELSE 160
            kp == IF prog = "eos" THEN 1 ELSE 5
        IN  /\ \A m \in DOMAIN curve_fit_calls :
                   LET c == curve_fit_calls[m]
                   IN  /\ c.f \in {"birch_murnaghan", "vinet"}
                       /\ c.p0 = <<data[Volumes[c.i + 1]][1], k0, kp>>
                       /\ CallsOf(c.f, c.i) = {m}
                       /\ c.f = "vinet" =>
                              /\ m > 1
                              /\ curve_fit_calls[m - 1].f = "birch_murnaghan"
                              /\ curve_fit_calls[m - 1].i = c.i
                              /\ Printed("params", "birch_murnaghan", c.i)
            /\ \A n \in 0..(Len(Pressures) - 1) :
                   (Plotted(n) \/ (pc = "plot" /\ i = n)) =>
                       /\ Cardinality(CallsOf("birch_murnaghan", n)) = 1
                       /\ Cardinality(CallsOf("vinet", n)) = 1
                       /\ Printed("params", "birch_murnaghan", n)
                       /\ Printed("params", "vinet", n)

C8_Witness ==
    /\ prog = "eos_addition"
    /\ pc = "done"
    /\ Len(args.pressures) = 2
    /\ Plotted(0)
    /\ Plotted(1)
    /\ Len(curve_fit_calls) = 4

\* C9: in eos_addition.py, skipping a pair that holds a missing value after
\* the interpolation does nothing but print the warning and move to the next
\* pair: no fit is called, no parameter line is printed, nothing is plotted,
\* the image is not written; and a run that ends normally with every pair
\* skipped has written no image.
C9_SkipChangesNothing ==
    /\ [][AtPairWithNaN =>
              /\ stdout' = Append(stdout, Line("warning", "missing", i))
              /\ curve_fit_calls' = curve_fit_calls
              /\ canvas' = canvas
              /\ output_file' = output_file
              /\ savefig_calls' = savefig_calls
              /\ <<popt_bm, popt_vinet, data>>' = <<popt_bm, popt_vinet, data>>
              /\ i' = i + 1
              /\ pc' = IF i + 1 < Len(args.pressures) THEN "loop" ELSE "done"]_vars
    /\ []((/\ prog = "eos_addition"
           /\ pc = "done"
           /\ \A n \in 0..(Len(args.pressures) - 1) : Printed("warning", "missing", n)) =>
              NothingFitted)

C9_Witness ==
    /\ prog = "eos_addition"
    /\ pc = "done"
    /\ Len(args.pressures) = 2
    /\ stdout = <<Line("warning", "missing", 0), Line("warning", "missing", 1)>>
    /\ ~output_file.written

\* C10: in eos_addition.py the dataset at position n of the argument lists is
\* drawn with colors[n mod len(colors)], n being its position and not the
\* number of datasets plotted before it, and that index is one of the list.
C10_ColourByPosition ==
    prog = "eos_addition" =>
        \A m \in DOMAIN canvas :
            LET idx == canvas[m].i % Len(args.colors)
            IN  /\ idx \in 0..(Len(args.colors) - 1)
                /\ canvas[m].color = args.colors[idx + 1]

C10_Witness ==
    /\ prog = "eos_addition"
    /\ args.colors = <<"red", "green">>
    /\ Printed("warning", "missing", 0)
    /\ \E m \in DOMAIN canvas :
           canvas[m].kind = "data" /\ canvas[m].i = 1 /\ canvas[m].color = "green"

====
